---- MODULE Spec2Model ----
(***************************************************************************)
(* Unrolled ISTA reconstruction network of model.py (dl-cs).               *)
(*                                                                         *)
(* model.py builds a TensorFlow graph.  What the graph-building code       *)
(* decides is modelled here exactly:                                       *)
(*   - tensor shapes (padding, convolution, crop, concat, layout),         *)
(*   - the variables each layer creates and the variable scope they are    *)
(*     created or looked up in (TF 1.x get_variable / AUTO_REUSE rules),   *)
(*   - the control flow of unroll_ista (set-up, loop, finalize),           *)
(*   - the arithmetic of masking, gradient step and hard projection.       *)
(*                                                                         *)
(* Numbers.  k-space and image samples are elements of the field Z/7Z      *)
(* instead of complex floats, and the Fourier transform is the 2-point     *)
(* transform FT(x) = 2*(x1+x2, x1-x2) over Z/7Z.  2*2*2 = 1 (mod 7), so    *)
(* FT is orthonormal (FT o FT = identity, FT symmetric), like the          *)
(* orthonormal centred FFT of utils.tfmri.  Every identity of the real     *)
(* code that follows from linearity and orthonormality holds here, and     *)
(* the elements are real, so conjugation is the identity.                  *)
(*                                                                         *)
(* utils.tfmri (model_forward, model_transpose, kspace_mask, circular_pad, *)
(* complex_to_channels, channels_to_complex) is not part of model.py; it   *)
(* is modelled from its contract in the specification, sections 4.1/4.2.   *)
(***************************************************************************)
EXTENDS Integers, Sequences, FiniteSets, TLC

VARIABLES
  cfg,           \* the arguments of the call (never reassigned)
  pc,            \* position of the call
  err,           \* exception that ended the call, "none" otherwise
  i_step,        \* loop index of unroll_ista
  mask,          \* local `mask` after line 243-244 (k-space shaped)
  ks_0, im_0,    \* masked input k-space and its adjoint image
  ks_k, im_k,    \* current k-space and image estimate
  im_dense,      \* shape of the dense accumulator, None before the first one
  summary_iter,  \* diagnostic mapping  name -> image estimate
  var_store,     \* TF variable store of the graph: scope -> variables
  prior_in,      \* shapes handed to prior_grad_res_net, one per invocation
  calls,         \* number of sensing-operator / prior-network invocations
  sh             \* argument and result of one layer-function application

vars == <<cfg, pc, err, i_step, mask, ks_0, im_0, ks_k, im_k, im_dense,
          summary_iter, var_store, prior_in, calls, sh>>

solver_vars == <<cfg, err, i_step, mask, ks_0, im_0, ks_k, im_k, im_dense,
                 summary_iter, var_store, prior_in, calls>>

----------------------------------------------------------------------------
(* Bounds of the model *)

MaxSteps == 3        \* num_grad_steps ranges over 0..MaxSteps
MaxFeatures == 2     \* resblock_num_features / num_features
MaxBlocks == 2       \* resblock_num_blocks / num_blocks
MaxKernel == 4       \* kernel_size ranges over 1..MaxKernel
MaxExtent == 3       \* spatial extents z, y range over 1..MaxExtent
MaxChannels == 2     \* channel count of a layer input, 1..MaxChannels
MaxVal == 1          \* k-space sample values 0..MaxVal
MaxSense == 2        \* sensitivity values of a one-coil map 1..MaxSense
MaxMask == 2         \* mask values 0..MaxMask
MaxWeight == 1       \* initial values a freshly created parameter set may take

(* Program constants *)

kernel_size_default == 3     \* prior_grad_res_net(kernel_size=3)

----------------------------------------------------------------------------
(* Small helpers *)

None == <<>>
Some(v) == <<v>>

Min(a, b) == IF a < b THEN a ELSE b
Max(a, b) == IF a > b THEN a ELSE b

\* Python int(n / d) for d > 0: truncation toward zero.
IntTrunc(n, d) == IF n >= 0 THEN n \div d ELSE -((-n) \div d)

\* Python slice lo:hi (0 <= lo, 0 <= hi) of an axis of `extent` elements.
SliceLen(extent, lo, hi) == Max(0, Min(hi, extent) - Min(lo, extent))

----------------------------------------------------------------------------
(* Layer functions: _batch_norm_relu, _conv2d, _res_block,                 *)
(* prior_grad_res_net.                                                     *)
(*                                                                         *)
(* A tensor under construction is a record                                 *)
(*   shape : the 4 extents, in the order of the data layout                *)
(*   zb    : how many positions from a spatial edge may hold values that   *)
(*           depend on the zero boundary of a 'same' convolution           *)
(*   conv  : the convolution layers created so far in the current scope,   *)
(*           in creation order (TF names them conv2d, conv2d_1, ...):      *)
(*           <<kernel, kernel, channels_in, channels_out, use_bias>>       *)
(*   bn    : the batch-normalisation layers created so far (channels)      *)
(*   ok    : FALSE once two tensors of different shapes were added         *)
(***************************************************************************)

Tensor(shape) ==
  [shape |-> shape, zb |-> 0, conv |-> <<>>, bn |-> <<>>, ok |-> TRUE]

\* axis numbers as in the code (0-based); shape[axis + 1] is the extent
AxisZ(data_format) == IF data_format = "channels_last" THEN 1 ELSE 2
AxisY(data_format) == IF data_format = "channels_last" THEN 2 ELSE 3
AxisC(data_format) == IF data_format = "channels_last" THEN 3 ELSE 1

Extent(t, axis) == t.shape[axis + 1]

\* utils.tfmri.circular_pad: `pad` wrapped elements on each side of `axis`.
circular_pad(t, pad, axis) ==
  [t EXCEPT !.shape[axis + 1] = @ + 2 * pad,
            !.zb = IF @ = 0 THEN 0 ELSE @ + pad]

\* tf.layers.batch_normalization on the channel axis of the layout
_batch_norm(t, data_format) ==
  [t EXCEPT !.bn = Append(@, Extent(t, AxisC(data_format)))]

_batch_norm_relu(t, data_format, batchnorm) ==
  IF batchnorm THEN _batch_norm(t, data_format) ELSE t

\* tf.layers.conv2d(..., padding='same'): spatial extents kept, channel
\* axis becomes num_features; a kernel of size k reaches k \div 2 positions
\* into the zero boundary.
layers_conv2d(t, num_features, kernel_size, data_format, use_bias) ==
  [t EXCEPT !.shape[AxisC(data_format) + 1] = num_features,
            !.zb = @ + (kernel_size \div 2),
            !.conv = Append(@, <<kernel_size, kernel_size,
                                 Extent(t, AxisC(data_format)),
                                 num_features, use_bias>>)]

\* pad of _conv2d: int((kernel_size - 0.5) / 2)
Conv2dPad(kernel_size) == IntTrunc(2 * kernel_size - 1, 4)

\* pad of _res_block: int((2 * (kernel_size - 1) + 0.5) / 2)
ResBlockPad(kernel_size) == IntTrunc(4 * (kernel_size - 1) + 1, 4)

\* pad of prior_grad_res_net:
\*   num_conv2d = num_blocks * 2 + 1
\*   int((num_conv2d * (kernel_size - 1) + 0.5) / 2)
PriorPadNoTrailing(num_blocks, kernel_size) ==
  IntTrunc(2 * (num_blocks * 2) * (kernel_size - 1) + 1, 4)

PriorPad(num_blocks, kernel_size) ==
  IntTrunc(2 * (num_blocks * 2 + 1) * (kernel_size - 1) + 1, 4)

\* The circular_crop slices: t[:, pad:(shape_z + pad), pad:(shape_y + pad), :]
\* for channels_last, t[:, :, pad:(shape_z + pad), pad:(shape_y + pad)]
\* otherwise.
CropShort(t, data_format, pad, shape_z, shape_y) ==
  LET az == IF data_format = "channels_last" THEN 1 ELSE 2
      ay == IF data_format = "channels_last" THEN 2 ELSE 3
  IN [t EXCEPT !.shape[az + 1] = SliceLen(@, pad, shape_z),
               !.shape[ay + 1] = SliceLen(@, pad, shape_y)]

Crop(t, data_format, pad, shape_z, shape_y) ==
  LET az == IF data_format = "channels_last" THEN 1 ELSE 2
      ay == IF data_format = "channels_last" THEN 2 ELSE 3
      ez == Extent(t, az)
      ey == Extent(t, ay)
      \* elements removed at the low and at the high end of each axis
      cut == Min(Min(Min(pad, ez), ez - Min(ez, shape_z + pad)),
                 Min(Min(pad, ey), ey - Min(ey, shape_y + pad)))
  IN [t EXCEPT !.shape[az + 1] = SliceLen(@, pad, shape_z + pad),
               !.shape[ay + 1] = SliceLen(@, pad, shape_y + pad),
               !.zb = Max(0, @ - cut)]

\* a + b elementwise; the layers created are those of `a`, built last
Add(a, b) ==
  [a EXCEPT !.zb = Max(a.zb, b.zb),
            !.ok = a.ok /\ b.ok /\ a.shape = b.shape]

\* continue building from tensor `t` after `built` was built
After(t, built) == [t EXCEPT !.conv = built.conv, !.bn = built.bn]

_conv2d(t, num_features, kernel_size, data_format, circular, use_bias) ==
  LET axis_z == AxisZ(data_format)
      axis_y == AxisY(data_format)
      shape_z == Extent(t, axis_z)
      shape_y == Extent(t, axis_y)
      pad == Conv2dPad(kernel_size)
      padded == IF circular /\ pad > 0
                THEN circular_pad(circular_pad(t, pad, axis_z), pad, axis_y)
                ELSE t
      conv == layers_conv2d(padded, num_features, kernel_size,
                            data_format, use_bias)
  IN IF circular /\ pad > 0
     THEN Crop(conv, data_format, pad, shape_z, shape_y)
     ELSE conv

_res_block(t, num_features, kernel_size, data_format, circular, batchnorm) ==
  LET axis_z == AxisZ(data_format)
      axis_y == AxisY(data_format)
      axis_c == AxisC(data_format)
      shape_z == Extent(t, axis_z)
      shape_y == Extent(t, axis_y)
      shape_c == Extent(t, axis_c)
      pad == ResBlockPad(kernel_size)
      shortcut == IF num_features # shape_c
                  THEN _conv2d(t, num_features, 1, data_format, FALSE,
                               ~batchnorm)
                  ELSE t
      net0 == After(t, shortcut)
      net1 == IF circular
              THEN circular_pad(circular_pad(net0, pad, axis_z), pad, axis_y)
              ELSE net0
      net2 == _batch_norm_relu(net1, data_format, batchnorm)
      net3 == _conv2d(net2, num_features, kernel_size, data_format, FALSE,
                      ~batchnorm)
      net4 == _batch_norm_relu(net3, data_format, batchnorm)
      net5 == _conv2d(net4, num_features, kernel_size, data_format, FALSE,
                      ~batchnorm)
      net6 == IF circular
              THEN Crop(net5, data_format, pad, shape_z, shape_y)
              ELSE net5
  IN Add(net6, shortcut)

\* for _ in range(num_blocks): net = _res_block(net, ..., circular=False)
RECURSIVE ResBlocks(_, _, _, _, _, _)
ResBlocks(t, n, num_features, kernel_size, data_format, batchnorm) ==
  IF n <= 0 THEN t
  ELSE ResBlocks(_res_block(t, num_features, kernel_size, data_format,
                            FALSE, batchnorm),
                 n - 1, num_features, kernel_size, data_format, batchnorm)

\* Returns [net, net_dense, pad].  num_features_out is None or Some(n).
prior_grad_res_net(curr_x, num_features, kernel_size, num_blocks, circular, data_format, do_residual, batchnorm, num_features_out) ==
  LET axis_z == AxisZ(data_format)
      axis_y == AxisY(data_format)
      axis_c == AxisC(data_format)
      num_features_in == Extent(curr_x, axis_c)
      features_out == IF num_features_out = None THEN num_features_in
                      ELSE num_features_out[1]
      shape_z == Extent(curr_x, axis_z)
      shape_y == Extent(curr_x, axis_y)
      pad == PriorPad(num_blocks, kernel_size)
      shortcut == IF do_residual /\ num_features_in # features_out
                  THEN _conv2d(curr_x, features_out, 1, data_format, FALSE,
                               ~batchnorm)
                  ELSE curr_x
      net0 == After(curr_x, shortcut)
      net1 == IF circular
              THEN circular_pad(circular_pad(net0, pad, axis_z), pad, axis_y)
              ELSE net0
      net2 == ResBlocks(net1, num_blocks, num_features, kernel_size,
                        data_format, batchnorm)
      dense0 == net2
      net3 == _batch_norm_relu(net2, data_format, batchnorm)
      net4 == _conv2d(net3, features_out, kernel_size, data_format, FALSE,
                      ~batchnorm)
      net5 == IF circular
              THEN Crop(net4, data_format, pad, shape_z, shape_y)
              ELSE net4
      dense1 == IF circular
                THEN Crop(dense0, data_format, pad, shape_z, shape_y)
                ELSE dense0
  IN [net |-> IF do_residual THEN Add(net5, shortcut) ELSE net5,
      net_dense |-> dense1,
      pad |-> pad]

----------------------------------------------------------------------------
(* Sensing operator and array arithmetic over Z/7Z.                        *)
(* An image is a vector over Loc; a k-space is one such vector per coil.   *)

Loc == 1..2

Fld(x) == x % 7
Neg(x) == Fld(7 - Fld(x))

\* orthonormal 2-point transform; it is its own inverse and adjoint
FT(x) == [l \in Loc |-> IF l = 1 THEN Fld(2 * (x[1] + x[2]))
                                 ELSE Fld(2 * (x[1] + Neg(x[2])))]

ImAdd(a, b) == [l \in Loc |-> Fld(a[l] + b[l])]
ImSub(a, b) == [l \in Loc |-> Fld(a[l] + Neg(b[l]))]
ImScale(s, a) == [l \in Loc |-> Fld(s * a[l])]

\* utils.tfmri.model_forward: coil weighting, then the transform
model_forward(im, sensemap) ==
  IF sensemap = None THEN <<FT(im)>>
  ELSE [c \in DOMAIN sensemap |->
          FT([l \in Loc |-> Fld(sensemap[c][l] * im[l])])]

RECURSIVE CoilSum(_, _, _, _)
CoilSum(ks, sensemap, c, l) ==
  IF c = 0 THEN 0
  ELSE Fld(sensemap[c][l] * FT(ks[c])[l] + CoilSum(ks, sensemap, c - 1, l))

\* utils.tfmri.model_transpose: inverse transform, then the conjugate
\* weighted sum over the coils
model_transpose(ks, sensemap) ==
  IF sensemap = None THEN FT(ks[1])
  ELSE [l \in Loc |-> CoilSum(ks, sensemap, Len(sensemap), l)]

\* utils.tfmri.kspace_mask: 1 where the k-space is not zero
kspace_mask(ks) ==
  [c \in DOMAIN ks |-> [l \in Loc |-> IF ks[c][l] # 0 THEN 1 ELSE 0]]

\* a mask given over Loc is broadcast over the coils of `ks`
Broadcast(m, ks) == [c \in DOMAIN ks |-> m]

\* mask * ks, elementwise
ApplyMaskSum(m, ks) ==
  [c \in DOMAIN ks |-> [l \in Loc |-> Fld(m[c][l] + ks[c][l])]]

ApplyMask(m, ks) ==
  [c \in DOMAIN ks |-> [l \in Loc |-> Fld(m[c][l] * ks[c][l])]]

\* mask * ks_0 + (1 - mask) * ks_k
HardProjectNoComplement(m, k0, kk) ==
  [c \in DOMAIN kk |-> [l \in Loc |->
     Fld(m[c][l] * k0[c][l] + m[c][l] * kk[c][l])]]

HardProject(m, k0, kk) ==
  [c \in DOMAIN kk |-> [l \in Loc |->
     Fld(m[c][l] * k0[c][l] + Fld(1 + Neg(m[c][l])) * kk[c][l])]]

\* if mask_output is not None: ks_k = ks_k * mask_output
ScaleOutputIgnored(ks, mask_output) == ks

ScaleOutput(ks, mask_output) ==
  IF mask_output = None THEN ks
  ELSE [c \in DOMAIN ks |-> [l \in Loc |-> Fld(ks[c][l] * mask_output[1])]]

\* utils.tfmri.complex_to_channels: (batch, z, y) -> (batch, z, y, 2)
complex_to_channels(shape) == Append(shape, 2)

\* tf.transpose(x, perm) of a 4-d tensor, perm 0-based
Transpose(shape, perm) ==
  <<shape[perm[1] + 1], shape[perm[2] + 1], shape[perm[3] + 1],
    shape[perm[4] + 1]>>

\* tf.concat([a, b], axis) of 4-d tensors
Concat(a, b, axis) ==
  <<IF axis = 0 THEN a[1] + b[1] ELSE a[1],
    IF axis = 1 THEN a[2] + b[2] ELSE a[2],
    IF axis = 2 THEN a[3] + b[3] ELSE a[3],
    IF axis = 3 THEN a[4] + b[4] ELSE a[4]>>

\* shape of every image of the model: batch 1, z = 2 (Loc), y = 1
ImShape == <<1, 2, 1>>

\* The learned prior as a function of the image: the parameter value w of
\* its scope decides it (w is drawn when the scope's variables are created).
PriorValue(w, x) == [l \in Loc |-> Fld(x[l] + w * x[3 - l])]

----------------------------------------------------------------------------
(* Names and variable scopes *)

Digit(d) == <<"0", "1", "2", "3", "4", "5", "6", "7", "8", "9">>[d + 1]

RECURSIVE Decimal(_)
Decimal(n) == IF n < 10 THEN Digit(n)
              ELSE Decimal(n \div 10) \o Digit(n % 10)

\* "iter_%02d" % i_step
FormatIter(i) == "iter_" \o (IF i < 10 THEN "0" ELSE "") \o Decimal(i)

\* scope_name of iteration i_step
ScopeNameOwn(i, resblock_share) == FormatIter(i)

ScopeName(i, resblock_share) ==
  IF resblock_share THEN "iter" ELSE FormatIter(i)

\* summary_iter[iter_name] = im_k
DictSet(d, key, value) == (key :> value) @@ d

SeqPrefixEq(a, b) == \A i \in 1..Min(Len(a), Len(b)) : a[i] = b[i]

\* get_variable finds a variable of that name: the shapes must agree
Compatible(old, new) ==
  /\ SeqPrefixEq(old.conv, new.conv)
  /\ SeqPrefixEq(old.bn, new.bn)

\* tf.variable_scope(scope_name, reuse=AUTO_REUSE if share else False)
\* followed by the get_variable calls of the layers built in it:
\*   "new"   the scope holds no variable yet, they are created
\*   "reuse" the variables exist and AUTO_REUSE returns them
\*   "error" ValueError: the variable exists and reuse is off, or its
\*           shape differs from the shape asked for
Resolve(store, scope_name, auto_reuse, created) ==
  IF scope_name \notin DOMAIN store THEN "new"
  ELSE IF ~auto_reuse THEN "error"
  ELSE IF Compatible(store[scope_name], created) THEN "reuse"
  ELSE "error"

----------------------------------------------------------------------------
(* unroll_ista *)

\* sensing-operator calls of one loop iteration and of the finalize step
FinalizeTransposesNone(hard_projection) == 0

FinalizeTransposes(hard_projection) == IF hard_projection THEN 1 ELSE 0

\* lines 242-253
Setup ==
  /\ pc = "setup"
  /\ LET m == IF cfg.mask = None THEN kspace_mask(cfg.ks_input)
              ELSE Broadcast(cfg.mask, cfg.ks_input)
         k0 == ApplyMask(m, cfg.ks_input)
         i0 == model_transpose(k0, cfg.sensemap)
     IN /\ mask' = m
        /\ ks_0' = k0
        /\ im_0' = i0
        /\ ks_k' = k0
        /\ im_k' = i0
  /\ im_dense' = None
  /\ calls' = [calls EXCEPT !.transpose = @ + 1]
  /\ pc' = "loop"
  /\ UNCHANGED <<cfg, err, i_step, summary_iter, var_store, prior_in, sh>>

\* one pass of the loop body, lines 255-312
Iterate ==
  /\ pc = "loop"
  /\ i_step < cfg.num_grad_steps
  /\ LET iter_name == FormatIter(i_step)
         scope_name == ScopeName(i_step, cfg.resblock_share)
         \* "update"
         ks_new == ApplyMask(mask, model_forward(im_k, cfg.sensemap))
         grad == ImSub(model_transpose(ks_new, cfg.sensemap), im_0)
         t_update == Neg(2)
         x == ImAdd(im_k, ImScale(t_update, grad))
         \* "prox"
         chan == complex_to_channels(ImShape)
         num_channels_out == chan[Len(chan)]
         x_first == Transpose(chan, <<0, 3, 1, 2>>)
         x_in == IF im_dense # None THEN Concat(x_first, im_dense, 1)
                 ELSE x_first
     IN \E res \in {prior_grad_res_net(
                       Tensor(x_in), cfg.resblock_num_features,
                       kernel_size_default, cfg.resblock_num_blocks,
                       cfg.circular, "channels_first", TRUE, cfg.batchnorm,
                       Some(num_channels_out))} :
        \E created \in {[conv |-> res.net.conv, bn |-> res.net.bn,
                          t |-> ~cfg.fix_update]} :
        \E how \in {Resolve(var_store, scope_name, cfg.resblock_share,
                             created)} :
        \E w \in 0..MaxWeight :
        \* a layer of zero features: whether the framework builds it or
        \* raises depends on its version
        \E built \in (IF cfg.resblock_num_features < 1 THEN BOOLEAN
                      ELSE {TRUE}) :
          /\ w = IF how = "error" \/ ~built \/ ~res.net.ok THEN 0
                 ELSE IF how = "reuse" THEN var_store[scope_name].w
                 ELSE w
          /\ calls' = [calls EXCEPT !.forward = @ + 1, !.transpose = @ + 1,
                                    !.prior = @ + 1]
          /\ prior_in' = Append(prior_in, x_in)
          /\ ks_k' = ks_new
          /\ IF how = "error" \/ ~built \/ ~res.net.ok
             THEN /\ pc' = "error"
                  /\ err' = "ValueError"
                  /\ UNCHANGED <<i_step, im_k, im_dense, summary_iter,
                                 var_store>>
             ELSE /\ var_store' = IF how = "new"
                                  THEN DictSet(var_store, scope_name,
                                               [conv |-> created.conv,
                                                bn |-> created.bn,
                                                t |-> created.t,
                                                w |-> w])
                                  ELSE var_store
                  /\ im_k' = PriorValue(w, x)
                  /\ im_dense' =
                       IF cfg.do_dense
                       THEN IF im_dense # None
                            THEN Concat(im_dense, res.net_dense.shape, 1)
                            ELSE res.net_dense.shape
                       ELSE im_dense
                  /\ summary_iter' = DictSet(summary_iter, iter_name, im_k')
                  /\ i_step' = i_step + 1
                  /\ pc' = "loop"
                  /\ err' = err
  /\ UNCHANGED <<cfg, mask, ks_0, im_0, sh>>

\* lines 314-326
Finalize ==
  /\ pc = "loop"
  /\ i_step >= cfg.num_grad_steps
  /\ LET ks_pred == model_forward(im_k, cfg.sensemap)
         ks_out == ScaleOutput(HardProject(mask, ks_0, ks_pred),
                               cfg.mask_output)
     IN IF cfg.hard_projection
        THEN /\ ks_k' = ks_out
             /\ im_k' = model_transpose(ks_out, cfg.sensemap)
        ELSE /\ ks_k' = ks_pred
             /\ im_k' = im_k
  /\ calls' = [calls EXCEPT !.forward = @ + 1,
                 !.transpose = @ + FinalizeTransposes(cfg.hard_projection)]
  /\ pc' = "done"
  /\ UNCHANGED <<cfg, err, i_step, mask, ks_0, im_0, im_dense, summary_iter,
                 var_store, prior_in, sh>>

Next == Setup \/ Iterate \/ Finalize

----------------------------------------------------------------------------
(* Application of one layer function to one input (for the shape laws) *)

NoLayer == [op |-> "none"]

LayerInputs ==
  [data_format : {"channels_last", "channels_first"},
   z : 1..MaxExtent, y : 1..MaxExtent, c : 1..MaxChannels,
   kernel_size : 1..MaxKernel,
   num_features : 1..MaxFeatures,
   num_blocks : 1..MaxBlocks,
   circular : BOOLEAN,
   batchnorm : BOOLEAN,
   do_residual : BOOLEAN,
   num_features_out : {None} \cup {Some(n) : n \in 1..MaxFeatures}]

\* the input tensor: (batch, z, y, channels) or (batch, channels, z, y)
InputTensor(a) ==
  Tensor(IF a.data_format = "channels_last" THEN <<1, a.z, a.y, a.c>>
         ELSE <<1, a.c, a.z, a.y>>)

CallConv2d ==
  /\ pc = "layer"
  /\ LET a == sh.args
         out == _conv2d(InputTensor(a), a.num_features, a.kernel_size,
                        a.data_format, a.circular, ~a.batchnorm)
     IN sh' = [op |-> "_conv2d", args |-> a, out |-> out, dense |-> out,
               pad |-> IF a.circular THEN Conv2dPad(a.kernel_size) ELSE 0]
  /\ pc' = "returned"
  /\ UNCHANGED solver_vars

CallResBlock ==
  /\ pc = "layer"
  /\ LET a == sh.args
         out == _res_block(InputTensor(a), a.num_features, a.kernel_size,
                           a.data_format, a.circular, a.batchnorm)
     IN sh' = [op |-> "_res_block", args |-> a, out |-> out, dense |-> out,
               pad |-> IF a.circular THEN ResBlockPad(a.kernel_size) ELSE 0]
  /\ pc' = "returned"
  /\ UNCHANGED solver_vars

CallPriorGradResNet ==
  /\ pc = "layer"
  /\ LET a == sh.args
         res == prior_grad_res_net(InputTensor(a), a.num_features,
                                   a.kernel_size, a.num_blocks, a.circular,
                                   a.data_format, a.do_residual, a.batchnorm,
                                   a.num_features_out)
     IN sh' = [op |-> "prior_grad_res_net", args |-> a, out |-> res.net,
               dense |-> res.net_dense,
               pad |-> IF a.circular THEN res.pad ELSE 0]
  /\ pc' = "returned"
  /\ UNCHANGED solver_vars

NextLayer == CallConv2d \/ CallResBlock \/ CallPriorGradResNet

----------------------------------------------------------------------------
(* Specifications *)

Flags ==
  [resblock_share : BOOLEAN, hard_projection : BOOLEAN, do_dense : BOOLEAN,
   batchnorm : BOOLEAN, circular : BOOLEAN, fix_update : BOOLEAN]

MakeCfg(ks, sense, m, n, f, b, scale, fl) ==
  [ks_input |-> ks, sensemap |-> sense, mask |-> m,
   num_grad_steps |-> n,
   resblock_num_features |-> f,
   resblock_num_blocks |-> b,
   mask_output |-> scale,
   resblock_share |-> fl.resblock_share,
   hard_projection |-> fl.hard_projection,
   do_dense |-> fl.do_dense,
   batchnorm |-> fl.batchnorm,
   circular |-> fl.circular,
   fix_update |-> fl.fix_update]

\* every configuration of the network, on one single-coil acquisition
ConfigsCtl ==
  {MakeCfg(<< <<1, 0>> >>, None, None, n, f, b, Some(1), fl) :
     n \in 0..MaxSteps, f \in 0..MaxFeatures, b \in 0..MaxBlocks,
     fl \in Flags}

Vec(max) == [Loc -> 0..max]

\* acquisitions: no sensitivity map, a one-coil map, or a two-coil map
Acquisitions ==
  {<< <<k>>, None >> : k \in Vec(MaxVal)}
  \cup {<< <<k>>, <<s>> >> : k \in Vec(MaxVal), s \in [Loc -> 1..MaxSense]}
  \cup {<< <<k1, k2>>, <<s1, <<1, 1>> >> >> :
          k1 \in Vec(MaxVal), k2 \in [Loc -> 0..1], s1 \in [Loc -> 1..2]}

\* hard_projection with each mask_output (which is read only under
\* hard_projection)
Projections ==
  {<<FALSE, Some(1)>>} \cup {<<TRUE, scale>> : scale \in {None, Some(1), Some(2)}}

DataFlags(hard_projection) ==
  [resblock_share |-> FALSE, hard_projection |-> hard_projection,
   do_dense |-> FALSE, batchnorm |-> TRUE, circular |-> TRUE,
   fix_update |-> TRUE]

\* every acquisition, mask and output scale, on a small network
ConfigsData ==
  {MakeCfg(a[1], a[2], m, n, 1, 1, p[2], DataFlags(p[1])) :
     a \in Acquisitions,
     m \in {None} \cup Vec(MaxMask),
     n \in 0..1,
     p \in Projections}

InitCall(configs) ==
  /\ cfg \in configs
  /\ pc = "setup"
  /\ err = "none"
  /\ i_step = 0
  /\ mask = None
  /\ ks_0 = None
  /\ im_0 = None
  /\ ks_k = None
  /\ im_k = None
  /\ im_dense = None
  /\ summary_iter = <<>>
  /\ var_store = <<>>
  /\ prior_in = <<>>
  /\ calls = [forward |-> 0, transpose |-> 0, prior |-> 0]
  /\ sh = NoLayer

Init == InitCall(ConfigsCtl)

InitData == InitCall(ConfigsData)

InitLayer ==
  /\ cfg = None
  /\ pc = "layer"
  /\ err = "none"
  /\ i_step = 0
  /\ mask = None
  /\ ks_0 = None
  /\ im_0 = None
  /\ ks_k = None
  /\ im_k = None
  /\ im_dense = None
  /\ summary_iter = <<>>
  /\ var_store = <<>>
  /\ prior_in = <<>>
  /\ calls = [forward |-> 0, transpose |-> 0, prior |-> 0]
  /\ \E a \in LayerInputs : sh = [op |-> "none", args |-> a]

\* one call of unroll_ista, over every configuration
Spec == Init /\ [][Next]_vars

\* one call of unroll_ista, over every acquisition
SpecData == InitData /\ [][Next]_vars

\* one application of a layer function
SpecLayer == InitLayer /\ [][NextLayer]_vars

----------------------------------------------------------------------------
(* Properties *)

N == cfg.num_grad_steps

ValidConfig ==
  cfg.resblock_num_features >= 1 /\ cfg.resblock_num_blocks >= 1

IterNames(n) == {FormatIter(i) : i \in 0..(n - 1)}

\* the image estimate the finalize step starts from
FinalEstimate == IF N = 0 THEN im_0 ELSE summary_iter[FormatIter(N - 1)]

Scaled(v) ==
  IF cfg.mask_output = None THEN v ELSE Fld(v * cfg.mask_output[1])

BinaryMask == \A c \in DOMAIN mask : \A l \in Loc : mask[c][l] \in {0, 1}

\* C1: every call with a valid configuration runs the loop body exactly
\* num_grad_steps times without leaving early, and then the diagnostic
\* mapping has exactly the num_grad_steps keys iter_00, iter_01, ...; the
\* entry of the last finished iteration is the current image estimate.
C1_ExactlyNIterations ==
  /\ (ValidConfig /\ pc \in {"done", "error"}) =>
        /\ pc = "done"
        /\ i_step = N
        /\ DOMAIN summary_iter = IterNames(N)
        /\ Cardinality(DOMAIN summary_iter) = N
  /\ (pc = "loop" /\ i_step >= 1) =>
        summary_iter[FormatIter(i_step - 1)] = im_k

\* C2 (as stated): after a zero-step call with hard projection (and the
\* default mask_output 1, or None) the image is the adjoint of the masked
\* input and the k-space is the unprojected prediction, whatever the input
\* k-space, sensitivity map and mask.
C2_ZeroStepIdentityAnyInput ==
  (/\ pc = "done" /\ N = 0 /\ cfg.hard_projection
   /\ cfg.mask_output \in {None, Some(1)}) =>
     /\ im_k = model_transpose(ApplyMask(mask, cfg.ks_input), cfg.sensemap)
     /\ ks_k = model_forward(im_0, cfg.sensemap)

\* C2 (amended): the same, for calls without a sensitivity map and with
\* mask_output 1 or None.
C2_ZeroStepIdentity ==
  (/\ pc = "done" /\ N = 0 /\ cfg.hard_projection
   /\ cfg.sensemap = None
   /\ cfg.mask_output \in {None, Some(1)}) =>
     /\ im_k = model_transpose(ApplyMask(mask, cfg.ks_input), cfg.sensemap)
     /\ ks_k = model_forward(im_0, cfg.sensemap)

C2_Witness ==
  /\ pc = "done" /\ N = 0 /\ cfg.hard_projection
  /\ cfg.sensemap = None
  /\ cfg.mask_output = Some(1)
  /\ cfg.mask = <<1, 0>>
  /\ cfg.ks_input = << <<1, 1>> >>
  /\ im_k = <<2, 2>>

\* C3: after the finalize step with hard projection, the returned k-space
\* is the measured input times mask_output where mask = 1, and the forward
\* transform of the final image estimate times mask_output where mask = 0.
C3_HardProjectionExact ==
  (pc = "done" /\ cfg.hard_projection) =>
     \A c \in DOMAIN ks_k : \A l \in Loc :
        /\ mask[c][l] = 1 => ks_k[c][l] = Scaled(cfg.ks_input[c][l])
        /\ mask[c][l] = 0 =>
             ks_k[c][l] =
               Scaled(model_forward(FinalEstimate, cfg.sensemap)[c][l])

C3_Witness ==
  /\ pc = "done" /\ cfg.hard_projection /\ N = 1
  /\ cfg.mask_output = Some(2)
  /\ mask = << <<1, 0>> >>
  /\ ks_k[1][1] = 2
  /\ ks_k[1][2] # 0

\* C4 (as stated): a call with a valid configuration that returns has made num_grad_steps + 1
\* model_forward calls, num_grad_steps + 1 model_transpose calls and
\* num_grad_steps prior-network evaluations.
C4_CallCountsNPlusOne ==
  (ValidConfig /\ pc = "done") =>
     calls = [forward |-> N + 1, transpose |-> N + 1, prior |-> N]

\* C4 (amended): a call that returns has made num_grad_steps + 1
\* model_forward calls, num_grad_steps prior-network evaluations, and
\* num_grad_steps + 1 model_transpose calls without hard projection,
\* num_grad_steps + 2 with it; no call makes more.
C4_CallCounts ==
  /\ pc = "done" =>
       calls = [forward |-> N + 1,
                transpose |-> N + 1 + (IF cfg.hard_projection THEN 1 ELSE 0),
                prior |-> N]
  /\ calls.forward <= N + 1
  /\ calls.prior <= N
  /\ calls.transpose <= N + 1 + (IF cfg.hard_projection THEN 1 ELSE 0)

C4_Witness ==
  /\ ValidConfig
  /\ pc = "done" /\ cfg.hard_projection /\ N = 2
  /\ calls = [forward |-> 3, transpose |-> 4, prior |-> 2]

\* C5: a call with resblock_num_blocks < 1 that has iterations to build
\* never returns, and the error it ends in is InvalidConfiguration, raised
\* before any prior network is built.  (This is the claim for the block
\* count; nothing in unroll_ista or prior_grad_res_net inspects the feature
\* count either.)
C5_InvalidConfigurationRejected ==
  (cfg.resblock_num_blocks < 1 /\ cfg.resblock_num_features >= 1 /\ N >= 1) =>
     /\ pc # "done"
     /\ pc = "error" => err = "InvalidConfiguration"
     /\ calls.prior = 0

C7_MaskIdempotentAnyMask ==
  pc = "loop" =>
     /\ ApplyMask(mask, ks_0) = ks_0
     /\ i_step >= 1 => ApplyMask(mask, ks_k) = ks_k

\* C7 (amended): the same, for masks whose entries are all 0 or 1 (the
\* mask derived from the k-space is one).
C7_MaskIdempotent ==
  (pc = "loop" /\ BinaryMask) =>
     /\ ApplyMask(mask, ks_0) = ks_0
     /\ i_step >= 1 => ApplyMask(mask, ks_k) = ks_k

C7_Witness ==
  /\ pc = "loop" /\ i_step = 1
  /\ cfg.mask = <<1, 0>>
  /\ cfg.ks_input[1] = <<1, 1>>
  /\ ks_0[1] = <<1, 0>>
  /\ ks_k[1][1] # 0

\* C8: the result of _conv2d, of _res_block and both results of
\* prior_grad_res_net have the spatial extent (z, y) of the input, for
\* every kernel size, block count, layout and value of circular.
C8_PaddingRemoved ==
  pc = "returned" =>
     LET a == sh.args
         axis_z == IF a.data_format = "channels_last" THEN 1 ELSE 2
         axis_y == IF a.data_format = "channels_last" THEN 2 ELSE 3
     IN /\ sh.out.ok
        /\ sh.out.shape[axis_z + 1] = a.z
        /\ sh.out.shape[axis_y + 1] = a.y
        /\ sh.dense.shape[axis_z + 1] = a.z
        /\ sh.dense.shape[axis_y + 1] = a.y
        /\ sh.out.shape[1] = 1

C8_Witness ==
  /\ pc = "returned" /\ sh.op = "prior_grad_res_net"
  /\ sh.args.circular /\ sh.args.kernel_size = 3 /\ sh.args.num_blocks = 2
  /\ sh.args.data_format = "channels_first"
  /\ sh.args.z = 2 /\ sh.args.y = 3
  /\ sh.pad = 5
  /\ sh.out.shape[3] = 2 /\ sh.out.shape[4] = 3
  /\ sh.dense.shape = <<1, sh.args.num_features, 2, 3>>

\* C9: in prior_grad_res_net with circular padding and an odd kernel size
\* the pad is at least the summed half-widths of the 2B+1 convolutions, and
\* no position of either result depends on a zero boundary.
C9_PadCoversReceptiveField ==
  (/\ pc = "returned" /\ sh.op = "prior_grad_res_net"
   /\ sh.args.circular /\ sh.args.kernel_size % 2 = 1) =>
     /\ sh.pad >= (2 * sh.args.num_blocks + 1)
                    * ((sh.args.kernel_size - 1) \div 2)
     /\ sh.out.zb = 0
     /\ sh.dense.zb = 0

C9_Witness ==
  /\ pc = "returned" /\ sh.op = "prior_grad_res_net"
  /\ sh.args.circular /\ sh.args.kernel_size = 3 /\ sh.args.num_blocks = 1
  /\ sh.pad = 3
  /\ sh.out.zb = 0

\* C10: with resblock_share (and a valid configuration) every invocation
\* of the prior network gets an input of the same channel count.
C10_SharedInputChannelsConstant ==
  (cfg.resblock_share /\ ValidConfig) =>
     \A i \in DOMAIN prior_in : \A j \in DOMAIN prior_in :
        prior_in[i][2] = prior_in[j][2]

====
